---- MODULE Spec2Model ----
(***************************************************************************)
(* Model of the LayerEdge wallet runner (src/main.js): the retrying        *)
(* request client (RequestHandler.makeRequest), the account session        *)
(* operations (LayerEdgeConnection), the per-wallet workflow                *)
(* (processWallet), the batch orchestrator (processWalletsInBatches) and    *)
(* the run driver (run).                                                    *)
(*                                                                         *)
(* JavaScript runs these on one event loop: code between two awaits is one *)
(* atomic step.  The suspension points are the axios call, the backoff     *)
(* timer, Promise.allSettled and the final sleep; each action below is the *)
(* code that runs when one of them completes, up to the next suspension.   *)
(* The signMessage awaits (a resolved-promise hop with no shared effect)   *)
(* are folded into the step that issues the request.                       *)
(***************************************************************************)
EXTENDS Integers, Sequences, FiniteSets, TLC

\* ---------------------------------------------------------------- bounds
MaxWallets == 3
MaxBatch == 2
MaxRetries == 3

\* ------------------------------------------------------ program constants
\* run() passes MAX_CONCURRENT_WALLETS as batchSize; the model draws the batch
\* size from BatchSizes so that lists of a few wallets split into several groups.
MAX_CONCURRENT_WALLETS == 10
retryCount == 2
DefaultBackoffMs == 2000
FixedDelaySeconds == 2
LoadedPoints == {7}
NullPoint == 0 - 1

BackoffBases == {1000, DefaultBackoffMs}
BatchSizes == 1..MaxBatch

\* ------------------------------------------------------------ arithmetic
RECURSIVE IntPow(_, _)
IntPow(b, e) == IF e = 0 THEN 1 ELSE b * IntPow(b, e - 1)

\* Math.pow(1.5, i) as the exact rational 3^i / 2^i.
Pow15(i) == [num |-> IntPow(3, i), den |-> IntPow(2, i)]

RatTimes(k, q) == [num |-> k * q.num, den |-> q.den]
RatDiv(q, k) == [num |-> q.num, den |-> q.den * k]
RatEq(p, q) == p.num * q.den = q.num * p.den
RatInt(k) == [num |-> k, den |-> 1]

\* delay(ms): despite the parameter name the argument is in seconds; the
\* timer is armed with ms * 1000 milliseconds.  The result is the timer's
\* duration in milliseconds.
delay(ms) == RatTimes(1000, ms)

\* ------------------------------------------------------ replies and axios
Statuses == {200, 400, 404, 500, 503}

NoBody == [kind |-> "null", message |-> "other", data |-> "absent",
           valid |-> FALSE, startTimestamp |-> "absent", nodePoints |-> NullPoint]

ObjBody(m, d, v, ts, np) ==
    [kind |-> "obj", message |-> m, data |-> d, valid |-> v,
     startTimestamp |-> ts, nodePoints |-> np]

\* Representative response bodies: JSON null, an empty string, objects with
\* and without a data field, and data objects with and without each field
\* the session operations read.
Bodies ==
    { NoBody,
      [NoBody EXCEPT !.kind = "empty"],
      ObjBody("user not found", "absent", FALSE, "absent", NullPoint),
      ObjBody("node action executed successfully", "null", FALSE, "absent", NullPoint),
      ObjBody("other", "obj", TRUE, "set", 5),
      ObjBody("other", "obj", FALSE, "null", 0),
      ObjBody("other", "obj", TRUE, "absent", NullPoint) }

\* What the network gives back for one attempt: a reply with a status and a
\* body, a connection error, or no reply within the timeout.
Replies ==
    {r \in [net : {"reply"}, status : Statuses, body : Bodies] :
        r.status >= 500 => r.body = NoBody}
      \cup [net : {"error", "timeout"}, status : {0}, body : {NoBody}]

\* Replies whose body does not matter (the request client never reads it).
BareReplies == {r \in Replies : r.body = NoBody}

validateStatusDefault(status) == status >= 200 /\ status < 300

validateStatus(status) == status < 500

\* axios(config): resolves with the response when validateStatus accepts
\* the status, otherwise rejects; error.response?.status is the status of
\* the rejected reply and undefined (0 here) without a reply.
axios(reply) ==
    IF reply.net = "reply" /\ validateStatus(reply.status)
    THEN [kind |-> "response", status |-> reply.status, body |-> reply.body]
    ELSE [kind |-> "error",
          status |-> IF reply.net = "reply" THEN reply.status ELSE 0,
          body |-> NoBody]

NullResponse == [ok |-> FALSE, status |-> 0, body |-> NoBody]
Response(out) == [ok |-> TRUE, status |-> out.status, body |-> out.body]

\* --------------------------------------------- RequestHandler.makeRequest
NoWait == RatInt(0)

IsServerFault5xx(status) == status >= 500
IsServerFault(status) == status = 500

ServerFaultWaitNoScale(backoffMs, i) == delay(RatTimes(backoffMs, Pow15(i)))
ServerFaultWait(backoffMs, i) == delay(RatDiv(RatTimes(backoffMs, Pow15(i)), 1000))

OtherFailureWaitGrowing(i) == delay(RatInt(FixedDelaySeconds * (i + 1)))
OtherFailureWait(i) == delay(RatInt(FixedDelaySeconds))

IsLastRetryOffByOne(i, retries) == i = retries
IsLastRetry(i, retries) == i = retries - 1

\* One pass of the loop body for attempt index i, given what axios did:
\* "return" hands the response back, "null" ends with null, "delay" arms the
\* timer for `wait` milliseconds and then continues the loop.
attempt(retries, backoffMs, i, out) ==
    IF out.kind = "response"
    THEN [act |-> "return", wait |-> NoWait]
    ELSE IF IsServerFault(out.status)
         THEN IF IsLastRetry(i, retries)
              THEN [act |-> "null", wait |-> NoWait]
              ELSE [act |-> "delay", wait |-> ServerFaultWait(backoffMs, i)]
         ELSE IF IsLastRetry(i, retries)
              THEN [act |-> "null", wait |-> NoWait]
              ELSE [act |-> "delay", wait |-> OtherFailureWait(i)]

\* The loop guard `i < retries`.
LoopGuard(i, retries) == i < retries

\* ------------------------------------------------ LayerEdgeConnection ops
\* Each operation maps the value returned by this.makeRequest (a response or
\* null) to its result: "true", "false", "null", or "throw" when reading the
\* response raises a TypeError.
Truthy(body) == body.kind = "obj"

isWalletRegistered(r) ==
    IF r.ok /\ r.status = 200 THEN "true"
    ELSE IF r.ok /\ r.status = 404
         THEN IF r.body.kind = "null" THEN "throw"
              ELSE IF r.body.kind = "obj" /\ r.body.message = "user not found"
                   THEN "false"
                   ELSE "null"
         ELSE "null"

checkInvite(r) ==
    IF r.ok /\ r.body.kind = "obj" /\ r.body.data = "obj" /\ r.body.valid
    THEN "true" ELSE "false"

registerWallet(r) ==
    IF r.ok /\ r.status = 200 THEN "true" ELSE "false"

dailyCheckIn(r) ==
    IF r.ok /\ Truthy(r.body) THEN "true" ELSE "false"

checkNodeStatus(r) ==
    IF r.ok /\ Truthy(r.body)
    THEN IF r.body.data # "obj" THEN "throw"
         ELSE IF r.body.startTimestamp # "null" THEN "true" ELSE "false"
    ELSE "false"

connectNode(r) ==
    IF r.ok /\ Truthy(r.body)
         /\ r.body.message = "node action executed successfully"
    THEN "true" ELSE "false"

stopNode(r) ==
    IF r.ok /\ Truthy(r.body) THEN "true" ELSE "false"

\* Returns the point total, or NullPoint for null.
checkNodePoints(r) ==
    IF r.ok /\ Truthy(r.body)
    THEN IF r.body.data = "obj" /\ r.body.nodePoints > 0
         THEN r.body.nodePoints ELSE 0
    ELSE NullPoint

Ops == {"isWalletRegistered", "checkInvite", "registerWallet", "dailyCheckIn",
        "checkNodeStatus", "stopNode", "connectNode", "checkNodePoints"}

Terminal == {"done", "aborted", "failed"}

OpResult(op, r) ==
    CASE op = "isWalletRegistered" -> isWalletRegistered(r)
      [] op = "checkInvite" -> checkInvite(r)
      [] op = "registerWallet" -> registerWallet(r)
      [] op = "dailyCheckIn" -> dailyCheckIn(r)
      [] op = "checkNodeStatus" -> checkNodeStatus(r)
      [] op = "stopNode" -> stopNode(r)
      [] op = "connectNode" -> connectNode(r)
      [] OTHER -> "none"

\* ------------------------------------------------------- processWallet
\* Where the workflow goes once operation `op` has returned `res`: the next
\* operation it issues, or the way it ends ("done" after the point query,
\* "aborted" on the early returns, "failed" through the catch block).
AfterStepNoSkip(op, res) ==
    CASE op = "isWalletRegistered" ->
            IF res = "throw" THEN "failed" ELSE "checkInvite"
      [] op = "checkInvite" -> IF res = "true" THEN "registerWallet" ELSE "aborted"
      [] op = "registerWallet" -> IF res = "true" THEN "dailyCheckIn" ELSE "aborted"
      [] op = "dailyCheckIn" -> "checkNodeStatus"
      [] op = "checkNodeStatus" ->
            IF res = "throw" THEN "failed"
            ELSE IF res = "true" THEN "stopNode" ELSE "connectNode"
      [] op = "stopNode" -> "connectNode"
      [] op = "connectNode" -> "checkNodePoints"
      [] OTHER -> "done"

AfterStepNoStop(op, res) ==
    CASE op = "isWalletRegistered" ->
            IF res = "throw" THEN "failed"
            ELSE IF res = "false" THEN "checkInvite" ELSE "dailyCheckIn"
      [] op = "checkInvite" -> IF res = "true" THEN "registerWallet" ELSE "aborted"
      [] op = "registerWallet" -> IF res = "true" THEN "dailyCheckIn" ELSE "aborted"
      [] op = "dailyCheckIn" -> "checkNodeStatus"
      [] op = "checkNodeStatus" -> IF res = "throw" THEN "failed" ELSE "connectNode"
      [] op = "stopNode" -> "connectNode"
      [] op = "connectNode" -> "checkNodePoints"
      [] OTHER -> "done"

AfterStepIgnoreInvite(op, res) ==
    CASE op = "isWalletRegistered" ->
            IF res = "throw" THEN "failed"
            ELSE IF res = "false" THEN "checkInvite" ELSE "dailyCheckIn"
      [] op = "checkInvite" -> "registerWallet"
      [] op = "registerWallet" -> IF res = "true" THEN "dailyCheckIn" ELSE "aborted"
      [] op = "dailyCheckIn" -> "checkNodeStatus"
      [] op = "checkNodeStatus" ->
            IF res = "throw" THEN "failed"
            ELSE IF res = "true" THEN "stopNode" ELSE "connectNode"
      [] op = "stopNode" -> "connectNode"
      [] op = "connectNode" -> "checkNodePoints"
      [] OTHER -> "done"

AfterStep(op, res) ==
    CASE op = "isWalletRegistered" ->
            IF res = "throw" THEN "failed"
            ELSE IF res = "false" THEN "checkInvite" ELSE "dailyCheckIn"
      [] op = "checkInvite" -> IF res = "true" THEN "registerWallet" ELSE "aborted"
      [] op = "registerWallet" -> IF res = "true" THEN "dailyCheckIn" ELSE "aborted"
      [] op = "dailyCheckIn" -> "checkNodeStatus"
      [] op = "checkNodeStatus" ->
            IF res = "throw" THEN "failed"
            ELSE IF res = "true" THEN "stopNode" ELSE "connectNode"
      [] op = "stopNode" -> "connectNode"
      [] op = "connectNode" -> "checkNodePoints"
      [] OTHER -> "done"

\* How an ending changes the counters and settles the workflow's promise:
\* stats.success++ on completion, stats.failed++ in the catch block, nothing
\* on the early returns; the promise is fulfilled in all three cases because
\* the catch block swallows the exception.
SettleRethrow(end, st) ==
    CASE end = "done" ->
            [stats |-> [st EXCEPT !.success = @ + 1], promise |-> "fulfilled"]
      [] end = "failed" -> [stats |-> st, promise |-> "rejected"]
      [] OTHER -> [stats |-> st, promise |-> "fulfilled"]

SettleLostUpdate(end, st) ==
    CASE end = "done" ->
            [stats |-> [st EXCEPT !.success = 1], promise |-> "fulfilled"]
      [] end = "failed" ->
            [stats |-> [st EXCEPT !.failed = 1], promise |-> "fulfilled"]
      [] OTHER -> [stats |-> st, promise |-> "fulfilled"]

Settle(end, st) ==
    CASE end = "done" ->
            [stats |-> [st EXCEPT !.success = @ + 1], promise |-> "fulfilled"]
      [] end = "failed" ->
            [stats |-> [st EXCEPT !.failed = @ + 1], promise |-> "fulfilled"]
      [] OTHER -> [stats |-> st, promise |-> "fulfilled"]

\* ------------------------------------------------------------------ state
VARIABLES
    wallets,    \* the rows read from the Excel file: [point]
    batchSize,  \* processWalletsInBatches' batchSize
    i,          \* processWalletsInBatches' loop variable
    stats,      \* [success, failed]
    pc,         \* per wallet: "idle", the operation awaited, or its ending
    att,        \* per wallet: makeRequest's loop variable i
    phase,      \* per wallet: "flight" (axios pending), "delay" (timer), "none"
    promise,    \* per wallet: state of the promise processWallet returned
    locals,     \* per wallet: processWallet's isRegistered, isValidInvite,
                \* registered and isRunning
    log,        \* per wallet: the operations issued so far, in order
    started,    \* per wallet: the batch numbers in which processWallet was called
    batches,    \* the sizes of the batches formed so far
    runPc,      \* run(): "start", "batches", "sleeping", "returned", "exited"
    excel,      \* the Excel file: [state, points]
    summary,    \* the summary line logged by run(), once logged
    req         \* a stand-alone RequestHandler.makeRequest call

vars == <<wallets, batchSize, i, stats, pc, att, phase, promise, locals, log,
          started, batches, runPc, excel, summary, req>>

wfVars == <<wallets, batchSize, i, stats, pc, att, phase, promise, locals, log,
            started, batches, runPc, excel, summary>>

\* The locals and the log of a workflow live as long as the workflow runs.
NoLocals == [isRegistered |-> "unset", isValidInvite |-> "unset",
             registered |-> "unset", isRunning |-> "unset"]

total == Len(wallets)
Wallets == 1..total

NoSummary == [logged |-> FALSE, success |-> 0, failed |-> 0]
IdleReq == [phase |-> "idle", retries |-> 0, backoffMs |-> 0, i |-> 0,
            attempts |-> 0, delays |-> <<>>, outs |-> <<>>,
            result |-> "none", response |-> NullResponse]

WalletRows == [point : LoadedPoints]
WalletLists == UNION {[1..n -> WalletRows] : n \in 0..MaxWallets}

InitWorkflow(ws, b, rp) ==
    /\ wallets = ws
    /\ batchSize = b
    /\ i = 0
    /\ stats = [success |-> 0, failed |-> 0]
    /\ pc = [w \in 1..Len(ws) |-> "idle"]
    /\ att = [w \in 1..Len(ws) |-> 0]
    /\ phase = [w \in 1..Len(ws) |-> "none"]
    /\ promise = [w \in 1..Len(ws) |-> "none"]
    /\ locals = [w \in 1..Len(ws) |-> NoLocals]
    /\ log = [w \in 1..Len(ws) |-> <<>>]
    /\ started = [w \in 1..Len(ws) |-> <<>>]
    /\ batches = <<>>
    /\ runPc = rp
    /\ excel = [state |-> "loaded", points |-> [w \in 1..Len(ws) |-> ws[w].point]]
    /\ summary = NoSummary

\* The program as started by `run()`: any Excel content, any batch size.
Init ==
    /\ \E ws \in WalletLists, b \in BatchSizes : InitWorkflow(ws, b, "start")
    /\ req = IdleReq

\* ------------------------------------------------ processWalletsInBatches
\* wallets.slice(i0, i0 + batchSize), as 1-based positions.
SliceOverlap(i0) == {w \in Wallets : i0 <= w /\ w <= i0 + batchSize}
Slice(i0) == {w \in Wallets : i0 < w /\ w <= i0 + batchSize}

\* Promise.allSettled resolves once no promise of the batch is pending; it
\* never rejects.
allSettledAny(i0) == \E w \in Slice(i0) : promise[w] \in {"fulfilled", "rejected"}
allSettledAllDone(i0) == \A w \in Slice(i0) : pc[w] = "done"
allSettled(i0) == \A w \in Slice(i0) : promise[w] \in {"fulfilled", "rejected"}

\* The synchronous start of processWallet: the LayerEdgeConnection
\* constructor builds the Wallet from the row's private key, which throws on
\* a malformed key (caught by processWallet); otherwise isWalletRegistered
\* issues its first request.  `bad` holds the wallets with a malformed key.
FirstStep(w, bad) == IF w \in bad THEN "failed" ELSE "isWalletRegistered"

\* Counters after the wallets lo..hi have run their synchronous start.
RECURSIVE StatsAfterStart(_, _, _, _)
StatsAfterStart(lo, hi, bad, st) ==
    IF lo > hi THEN st
    ELSE StatsAfterStart(lo + 1, hi, bad,
            IF FirstStep(lo, bad) \in Terminal
            THEN Settle(FirstStep(lo, bad), st).stats ELSE st)

Max(a, b) == IF a > b THEN a ELSE b
Min(a, b) == IF a < b THEN a ELSE b

\* The batch number logged for the slice at i0: i / batchSize + 1.
BatchNumber(i0) == (i0 \div batchSize) + 1

\* batch.map(... processWallet ...): every wallet of the slice is started.
Launch(i0) ==
    LET batch == Slice(i0) IN
    \E bad \in SUBSET batch :
    /\ pc' = [w \in Wallets |-> IF w \in batch THEN FirstStep(w, bad) ELSE pc[w]]
    /\ att' = [w \in Wallets |-> IF w \in batch THEN 0 ELSE att[w]]
    /\ phase' = [w \in Wallets |->
                   IF w \in batch
                   THEN (IF FirstStep(w, bad) \in Terminal THEN "none" ELSE "flight")
                   ELSE phase[w]]
    /\ promise' = [w \in Wallets |->
                     IF w \in batch
                     THEN (IF FirstStep(w, bad) \in Terminal
                           THEN Settle(FirstStep(w, bad), stats).promise
                           ELSE "pending")
                     ELSE promise[w]]
    /\ locals' = locals
    /\ log' = [w \in Wallets |->
                 IF w \in batch /\ FirstStep(w, bad) \in Ops
                 THEN Append(log[w], FirstStep(w, bad)) ELSE log[w]]
    /\ started' = [w \in Wallets |->
                     IF w \in batch THEN Append(started[w], BatchNumber(i0)) ELSE started[w]]
    /\ stats' = StatsAfterStart(i0 + 1, Min(i0 + batchSize, total), bad, stats)
    /\ batches' = Append(batches, Cardinality(batch))

\* updatePointsToExcel: the rows are rewritten with `wallet.point || 0`;
\* a failure of the read or the write is caught and logged inside.
PointOrZero(p) == IF p = NullPoint \/ p = 0 THEN 0 ELSE p

\* The rest of run() once processWalletsInBatches has returned `st`.
FinishAbortOnError(st) ==
    /\ \E ok \in BOOLEAN :
          IF ok
          THEN /\ excel' = [state |-> "written",
                            points |-> [w \in Wallets |-> PointOrZero(wallets[w].point)]]
               /\ summary' = [logged |-> TRUE, success |-> st.success,
                              failed |-> st.failed]
               /\ runPc' = "sleeping"
          ELSE /\ excel' = [excel EXCEPT !.state = "error"]
               /\ summary' = summary
               /\ runPc' = "exited"
    /\ UNCHANGED <<pc, att, phase, promise, locals, log, started, stats, batches>>

Finish(st) ==
    /\ \E ok \in BOOLEAN :
          excel' = IF ok
                   THEN [state |-> "written",
                         points |-> [w \in Wallets |-> PointOrZero(wallets[w].point)]]
                   ELSE [excel EXCEPT !.state = "error"]
    /\ summary' = [logged |-> TRUE, success |-> st.success, failed |-> st.failed]
    /\ runPc' = "sleeping"
    /\ UNCHANGED <<pc, att, phase, promise, locals, log, started, stats, batches>>

\* The head of the for loop at index i0: another batch, or return stats.
LoopHead(i0) ==
    IF i0 < total
    THEN Launch(i0) /\ runPc' = "batches" /\ UNCHANGED <<excel, summary>>
    ELSE Finish(stats)

\* run(), up to the first batch: an empty list is fatal (process.exit(1)).
runStart ==
    /\ runPc = "start"
    /\ IF total = 0
       THEN /\ runPc' = "exited"
            /\ UNCHANGED <<i, stats, pc, att, phase, promise, locals, log,
                           started, batches, excel, summary>>
       ELSE /\ i' = 0
            /\ LoopHead(0)
    /\ UNCHANGED <<wallets, batchSize, req>>

\* The continuation of `await Promise.allSettled(...)`: i += batchSize.
batchSettled ==
    /\ runPc = "batches"
    /\ allSettled(i)
    /\ i' = i + batchSize
    /\ LoopHead(i + batchSize)
    /\ UNCHANGED <<wallets, batchSize, req>>

\* The continuation of `await delay(120 * 60)`: run() returns.
sleepElapsed ==
    /\ runPc = "sleeping"
    /\ runPc' = "returned"
    /\ UNCHANGED <<wallets, batchSize, i, stats, pc, att, phase, promise, locals,
                   log, started, batches, excel, summary, req>>

\* ---------------------------------------------------- processWallet steps
\* The assignment processWallet makes with an operation's result.
Assign(l, op, res) ==
    CASE op = "isWalletRegistered" -> [l EXCEPT !.isRegistered = res]
      [] op = "checkInvite" -> [l EXCEPT !.isValidInvite = res]
      [] op = "registerWallet" -> [l EXCEPT !.registered = res]
      [] op = "checkNodeStatus" -> [l EXCEPT !.isRunning = res]
      [] OTHER -> l

\* What the settling of one axios call does to the workflow awaiting
\* operation `op` at attempt index k: either makeRequest arms its timer
\* ("delay"), or it returns to the operation, whose result `res` (and, for
\* the point query, `point`) processWallet acts on.
Outcome(op, k, reply) ==
    LET out == axios(reply)
        a == attempt(retryCount, DefaultBackoffMs, k, out)
        r == IF a.act = "return" THEN Response(out) ELSE NullResponse
    IN IF a.act = "delay"
       THEN [kind |-> "delay", res |-> "none", point |-> NullPoint]
       ELSE [kind |-> "returned", res |-> OpResult(op, r),
             point |-> IF op = "checkNodePoints" THEN checkNodePoints(r) ELSE NullPoint]

\* Every outcome the awaited axios call can have, per operation and attempt
\* index, over all replies of the network.
Outcomes ==
    [op \in Ops, k \in 0..(retryCount - 1) |->
        {Outcome(op, k, reply) : reply \in Replies}]

\* makeRequest returning null without a further axios call.
NullOutcome(op) ==
    [kind |-> "returned", res |-> OpResult(op, NullResponse),
     point |-> IF op = "checkNodePoints" THEN checkNodePoints(NullResponse) ELSE NullPoint]

\* The record `wallet.point = ...` assigns to: processWallet's own argument.
PointTargetPrevious(w) == IF w > 1 THEN w - 1 ELSE w
PointTarget(w) == w

\* The operation wallet w awaits has returned: processWallet stores the
\* result and runs on to its next request or to its end.
Returned(w, o) ==
    LET op == pc[w]
        nxt == IF op = "checkNodePoints" THEN "done" ELSE AfterStep(op, o.res)
    IN
    /\ wallets' = IF op = "checkNodePoints"
                  THEN [wallets EXCEPT ![PointTarget(w)].point = o.point]
                  ELSE wallets
    /\ locals' = [locals EXCEPT ![w] =
                    IF nxt \in Terminal THEN NoLocals
                    ELSE IF o.res = "throw" THEN @ ELSE Assign(@, op, o.res)]
    /\ pc' = [pc EXCEPT ![w] = nxt]
    /\ att' = [att EXCEPT ![w] = 0]
    /\ IF nxt \in Terminal
       THEN /\ phase' = [phase EXCEPT ![w] = "none"]
            /\ stats' = Settle(nxt, stats).stats
            /\ promise' = [promise EXCEPT ![w] = Settle(nxt, stats).promise]
            /\ log' = [log EXCEPT ![w] = <<>>]
       ELSE /\ phase' = [phase EXCEPT ![w] = "flight"]
            /\ log' = [log EXCEPT ![w] = Append(@, nxt)]
            /\ UNCHANGED <<stats, promise>>
    /\ UNCHANGED <<batchSize, i, started, batches, runPc, excel, summary, req>>

\* The axios call of wallet w's current attempt settles.
axiosSettles(w) ==
    /\ pc[w] \in Ops
    /\ phase[w] = "flight"
    /\ \E o \in Outcomes[pc[w], att[w]] :
          IF o.kind = "delay"
          THEN /\ phase' = [phase EXCEPT ![w] = "delay"]
               /\ UNCHANGED <<wallets, batchSize, i, stats, pc, att, promise, locals,
                              log, started, batches, runPc, excel, summary, req>>
          ELSE Returned(w, o)

\* The backoff timer of wallet w fires: i++ and the loop guard.
timerFires(w) ==
    /\ pc[w] \in Ops
    /\ phase[w] = "delay"
    /\ IF LoopGuard(att[w] + 1, retryCount)
       THEN /\ att' = [att EXCEPT ![w] = @ + 1]
            /\ phase' = [phase EXCEPT ![w] = "flight"]
            /\ UNCHANGED <<wallets, batchSize, i, stats, pc, promise, locals, log,
                           started, batches, runPc, excel, summary, req>>
       ELSE Returned(w, NullOutcome(pc[w]))

Next ==
    \/ runStart
    \/ batchSettled
    \/ sleepElapsed
    \/ \E w \in Wallets : axiosSettles(w)
    \/ \E w \in Wallets : timerFires(w)

Spec == Init /\ [][Next]_vars

\* The run under the event loop's scheduling: a continuation that is ready
\* is eventually run, an armed timer fires, and every axios call settles
\* (by its reply, a network error or the 60 s timeout of axiosConfig).
SpecLive == Spec /\ WF_vars(Next)

\* ------------------------------- RequestHandler.makeRequest on its own
\* A single call makeRequest(config, retries, backoffMs) with any retry
\* budget and backoff base; req.delays records the timers armed (ms) and
\* req.outs what axios did on each attempt.
InitReq ==
    /\ InitWorkflow(<<>>, 1, "off")
    /\ \E r \in 0..MaxRetries, b \in BackoffBases :
          req = [IdleReq EXCEPT !.phase = "call", !.retries = r, !.backoffMs = b]

\* Entry into the loop with index k: issue axios, or fall out and return null.
ReqLoop(k) ==
    IF LoopGuard(k, req.retries)
    THEN req' = [req EXCEPT !.phase = "flight", !.i = k, !.attempts = @ + 1]
    ELSE req' = [req EXCEPT !.phase = "returned", !.i = k, !.result = "null"]

reqCall ==
    /\ req.phase = "call"
    /\ ReqLoop(0)
    /\ UNCHANGED wfVars

reqAxiosSettles(reply) ==
    /\ req.phase = "flight"
    /\ LET out == axios(reply)
           a == attempt(req.retries, req.backoffMs, req.i, out)
           seen == Append(req.outs, [kind |-> out.kind, status |-> out.status])
       IN CASE a.act = "return" ->
                 req' = [req EXCEPT !.phase = "returned", !.outs = seen,
                                    !.result = "response", !.response = Response(out)]
            [] a.act = "null" ->
                 req' = [req EXCEPT !.phase = "returned", !.outs = seen,
                                    !.result = "null"]
            [] OTHER ->
                 req' = [req EXCEPT !.phase = "delay", !.outs = seen,
                                    !.delays = Append(@, a.wait)]
    /\ UNCHANGED wfVars

reqTimerFires ==
    /\ req.phase = "delay"
    /\ ReqLoop(req.i + 1)
    /\ UNCHANGED wfVars

NextReq ==
    \/ reqCall
    \/ \E reply \in BareReplies : reqAxiosSettles(reply)
    \/ reqTimerFires

SpecReq == InitReq /\ [][NextReq]_vars

\* ================================================================ claims
InProgress == {w \in Wallets : pc[w] \in Ops}
Count(state) == Cardinality({w \in Wallets : pc[w] = state})
Ceil(n, b) == (n + b - 1) \div b
GroupOf(w) == ((w - 1) \div batchSize) + 1
ExpoDelay(base, k) == [num |-> base * IntPow(3, k), den |-> IntPow(2, k)]
FailedBefore(k) == \A j \in 1..(k - 1) : req.outs[j].kind = "error"

\* C1: once processWalletsInBatches has returned (run() has logged the
\* summary of the returned counters), success + failed equals the number of
\* wallets, whatever the wallets' outcomes were.
C1_CountersSumToTotal ==
    summary.logged => summary.success + summary.failed = total

\* C2: a wallet whose workflow ends early (invalid referral code or failed
\* registration) is counted as failed and not as success: the failed counter
\* covers every aborted and every thrown workflow, the success counter only
\* the completed ones.
C2_AbortedCountedFailed ==
    /\ stats.failed = Count("aborted") + Count("failed")
    /\ stats.success = Count("done")

\* C3: a workflow that throws is counted as failed exactly once and its
\* exception stays inside processWallet (its promise never rejects, run()
\* never takes its fatal exit for a non-empty list); the step in which it
\* fails leaves every sibling that is already running untouched, siblings
\* are counted by their own outcome, and the orchestrator returns only when
\* every workflow has reached a terminal state.
C3_StateInv ==
    /\ \A w \in Wallets : promise[w] # "rejected"
    /\ stats.failed = Count("failed")
    /\ stats.success = Count("done")
    /\ total > 0 => runPc # "exited"
    /\ summary.logged => \A w \in Wallets : pc[w] \in Terminal

C3_StepInv ==
    \A w \in Wallets :
        (pc[w] # "failed" /\ pc'[w] = "failed") =>
            \A v \in Wallets \ {w} :
                pc[v] \in Ops =>
                    /\ pc'[v] = pc[v] /\ att'[v] = att[v] /\ phase'[v] = phase[v]
                    /\ promise'[v] = promise[v] /\ log'[v] = log[v]

C3_Isolation == [](C3_StateInv) /\ [][C3_StepInv]_vars

\* C3 witness: in a batch of at least two, one wallet has failed through the
\* catch block and a sibling of the same batch has completed.
C3_Witness ==
    \E w \in Slice(i), v \in Slice(i) :
        w # v /\ pc[w] = "failed" /\ pc[v] = "done" /\ stats.failed >= 1

\* C4: a wallet of a later group has been started only if every wallet of
\* every earlier group has settled; the wallets in progress all belong to
\* the current slice, so at most batchSize are in progress.
C4_GroupBarrier ==
    /\ \A w \in Wallets, v \in Wallets :
          (GroupOf(w) < GroupOf(v) /\ started[v] # <<>>) => pc[w] \in Terminal
    /\ InProgress \subseteq Slice(i)
    /\ Cardinality(InProgress) <= batchSize

\* C4 witness: batches of two; the second group is running after the two
\* workflows of the first have settled, one completed and one failed.
C4_Witness ==
    /\ batchSize = 2
    /\ \E v \in InProgress : GroupOf(v) = 2 /\ phase[v] = "delay"
    /\ \E w \in Wallets, u \in Wallets :
          GroupOf(w) = 1 /\ GroupOf(u) = 1 /\ pc[w] = "done" /\ pc[u] = "failed"

\* C5: when the orchestrator has returned it has formed ceil(N/B) groups of
\* sizes B, ..., B, N - B*(ceil(N/B) - 1), and every wallet was started
\* exactly once, in group floor(index / B); before that no wallet is started
\* twice nor in another group.
C5_Partition ==
    /\ \A w \in Wallets : started[w] \in {<<>>, <<GroupOf(w)>>}
    /\ \A k \in 1..Len(batches) :
          batches[k] = IF k < Ceil(total, batchSize)
                       THEN batchSize
                       ELSE total - batchSize * (Ceil(total, batchSize) - 1)
    /\ Len(batches) <= Ceil(total, batchSize)
    /\ summary.logged =>
          /\ Len(batches) = Ceil(total, batchSize)
          /\ \A w \in Wallets : started[w] = <<GroupOf(w)>>

\* C5 witness: three wallets in batches of two were run as groups <<2, 1>>.
C5_Witness ==
    summary.logged /\ total = 3 /\ batchSize = 2 /\ batches = <<2, 1>>

\* C6: a call with budget r >= 1 whose attempts all ended in status 500 has
\* issued r attempts and armed r - 1 timers, the one after attempt index k
\* for backoffMs * 1.5^k milliseconds, and has returned null.
C6_ServerFaultBackoff ==
    (/\ req.phase = "returned"
     /\ req.retries >= 1
     /\ \A k \in 1..Len(req.outs) : req.outs[k].status = 500)
    => /\ req.attempts = req.retries
       /\ Len(req.outs) = req.retries
       /\ req.result = "null"
       /\ Len(req.delays) = req.retries - 1
       /\ \A k \in 1..Len(req.delays) :
             RatEq(req.delays[k], ExpoDelay(req.backoffMs, k - 1))

\* C6 witness: a budget of three, three 500s, two timers.
C6_Witness ==
    /\ req.phase = "returned" /\ req.retries = 3 /\ Len(req.delays) = 2
    /\ \A k \in 1..Len(req.outs) : req.outs[k].status = 500

\* C7: the timer armed after a failure without a response (network error,
\* timeout) is 2000 ms at every attempt index and for every backoff base.
C7_FixedDelay ==
    \A k \in 1..Len(req.delays) :
        (req.outs[k].kind = "error" /\ req.outs[k].status = 0)
            => RatEq(req.delays[k], RatInt(2000))

\* C7 witness: two timers after two failures without a response, with the
\* non-default backoff base.
C7_Witness ==
    /\ Len(req.delays) = 2 /\ req.backoffMs # DefaultBackoffMs
    /\ \A k \in 1..2 : req.outs[k].status = 0

\* C8 as stated: the timer armed after any reply of status >= 500 follows
\* the exponential backoff.
C8_Original ==
    \A k \in 1..Len(req.delays) :
        req.outs[k].status >= 500
            => RatEq(req.delays[k], ExpoDelay(req.backoffMs, k - 1))

\* C8 as amended: a reply of status >= 500 is never handed to the caller and
\* is retried while attempts remain; the timer follows the exponential
\* backoff after status 500 exactly, and is the fixed 2000 ms after any
\* other status >= 500, as after network errors and timeouts.
C8_Only500Backoff ==
    /\ \A k \in 1..Len(req.outs) :
          req.outs[k].status >= 500 =>
              /\ req.outs[k].kind = "error"
              /\ k < req.retries => Len(req.delays) >= k
    /\ \A k \in 1..Len(req.delays) :
          /\ req.outs[k].status = 500
                => RatEq(req.delays[k], ExpoDelay(req.backoffMs, k - 1))
          /\ req.outs[k].status > 500
                => RatEq(req.delays[k], RatInt(2000))

\* C8 witness: a 503 at attempt index 1 was followed by the fixed delay,
\* where the exponential one would have differed.
C8_Witness ==
    /\ Len(req.delays) = 2 /\ req.outs[2].status = 503
    /\ ~RatEq(req.delays[2], ExpoDelay(req.backoffMs, 1))

\* C9: at most `retries` attempts are issued; a response ends the call at
\* once and is what the call returns; the call returns null exactly when
\* `retries` attempts have all failed; every timer is followed by another
\* attempt, so none is armed after the last one.
C9_BoundedAttempts ==
    /\ req.attempts <= req.retries
    /\ req.attempts = Len(req.outs) + (IF req.phase = "flight" THEN 1 ELSE 0)
    /\ \A k \in 1..Len(req.outs) : req.outs[k].kind = "response" =>
          /\ k = Len(req.outs)
          /\ req.phase = "returned" /\ req.result = "response"
          /\ req.response = [ok |-> TRUE, status |-> req.outs[k].status, body |-> NoBody]
    /\ req.phase = "returned" =>
          /\ req.result \in {"response", "null"}
          /\ req.result = "response" =>
                Len(req.outs) >= 1 /\ req.outs[Len(req.outs)].kind = "response"
          /\ req.result = "null" <=>
                (Len(req.outs) = req.retries /\ FailedBefore(req.retries + 1))
          /\ Len(req.delays) = Max(Len(req.outs) - 1, 0)
    /\ Len(req.delays) <= Max(req.retries - 1, 0)

\* C9 witness: a response returned on the third attempt after a server fault
\* and a network failure.
C9_Witness ==
    /\ req.phase = "returned" /\ req.result = "response" /\ Len(req.outs) = 3
    /\ req.outs[1].status = 500 /\ req.outs[2].status = 0

\* C10: while a workflow whose registration check returned true is running,
\* the operation it issued right after the check is dailyCheckIn and it has
\* issued neither checkInvite nor registerWallet.
C10_RegisteredSkipsRegistration ==
    \A w \in Wallets :
        locals[w].isRegistered = "true" =>
            /\ Len(log[w]) >= 2
            /\ log[w][1] = "isWalletRegistered"
            /\ log[w][2] = "dailyCheckIn"
            /\ \A k \in 1..Len(log[w]) : log[w][k] \notin {"checkInvite", "registerWallet"}

\* C10 witness: a registered wallet has reached the point query.
C10_Witness ==
    \E w \in Wallets :
        locals[w].isRegistered = "true" /\ pc[w] = "checkNodePoints"

\* ---------------------------------------------------------------- C11..
Occurrences(seq, x) == Cardinality({k \in 1..Len(seq) : seq[k] = x})
Follows(seq, x, y) ==
    \A k \in 1..Len(seq) : seq[k] = x => (k < Len(seq) => seq[k + 1] = y)
Issued(w, op) == \E k \in 1..Len(log[w]) : log[w][k] = op

\* C11: in a running workflow whose node-status check returned true, stopNode
\* was issued right after the check and connectNode only after stopNode had
\* returned; when the check returned false stopNode is not issued and
\* connectNode follows the check; connectNode is issued at most once, and
\* exactly once by the time of the point query; whatever stopNode returns,
\* the step that ends it issues connectNode.
C11_StateInv ==
    \A w \in Wallets :
        /\ locals[w].isRunning = "true" =>
              /\ Issued(w, "stopNode")
              /\ Follows(log[w], "checkNodeStatus", "stopNode")
              /\ Follows(log[w], "stopNode", "connectNode")
              /\ Issued(w, "connectNode") => pc[w] # "stopNode"
        /\ locals[w].isRunning = "false" =>
              /\ ~Issued(w, "stopNode")
              /\ Issued(w, "connectNode")
              /\ Follows(log[w], "checkNodeStatus", "connectNode")
        /\ Occurrences(log[w], "connectNode") <= 1
        /\ Occurrences(log[w], "stopNode") <= 1
        /\ pc[w] = "checkNodePoints" =>
              /\ locals[w].isRunning \in {"true", "false"}
              /\ Occurrences(log[w], "connectNode") = 1
        /\ pc[w] \in Ops => log[w][Len(log[w])] = pc[w]

C11_StepInv ==
    \A w \in Wallets :
        (pc[w] = "stopNode" /\ pc'[w] # "stopNode") =>
            pc'[w] = "connectNode" /\ log'[w] = Append(log[w], "connectNode")

C11_StopBeforeConnect == [](C11_StateInv) /\ [][C11_StepInv]_vars

\* C11 witness: a workflow whose node was reported running has issued
\* stopNode and then connectNode (stopNode can return false on that path),
\* while a sibling whose node was reported not running has issued
\* connectNode without stopNode.
C11_Witness ==
    /\ \E o \in Outcomes["stopNode", 1] : o.kind = "returned" /\ o.res = "false"
    /\ \E w \in Wallets, v \in Wallets :
          /\ locals[w].isRunning = "true" /\ pc[w] = "connectNode"
          /\ locals[v].isRunning = "false" /\ pc[v] = "connectNode"

\* C12: no operation of the session throws to processWallet, whatever
\* makeRequest returned to it (null, or a response of status < 500 with any
\* body): a workflow that is awaiting an operation never leaves it through
\* the catch block.
C12_NoOperationThrows ==
    [][\A w \in Wallets : pc[w] \in Ops => pc'[w] # "failed"]_vars

\* C13: under every interleaving the success counter equals the number of
\* workflows that completed the point query and the failed counter the
\* number that ended in the catch block; every step adds to each counter
\* exactly the number of workflows that reach that ending in the step, a
\* workflow that has ended never ends again, and the summary reports the
\* counters as they stand.
Entering(state) == Cardinality({w \in Wallets : pc[w] # state /\ pc'[w] = state})

C13_StateInv ==
    /\ stats.success = Count("done")
    /\ stats.failed = Count("failed")
    /\ stats.success + stats.failed <= total
    /\ summary.logged =>
          summary.success = Count("done") /\ summary.failed = Count("failed")

C13_StepInv ==
    /\ stats'.success = stats.success + Entering("done")
    /\ stats'.failed = stats.failed + Entering("failed")
    /\ \A w \in Wallets : pc[w] \in Terminal => pc'[w] = pc[w]

C13_NoLostUpdate == [](C13_StateInv) /\ [][C13_StepInv]_vars

\* C13 witness: a run of three wallets in batches of two has ended with both
\* workflows of the first batch completed (two increments of success from
\* interleaved workflows) and the third failed.
C13_Witness ==
    /\ batchSize = 2 /\ total = 3
    /\ pc[1] = "done" /\ pc[2] = "done" /\ pc[3] = "failed"
    /\ stats = [success |-> 2, failed |-> 1]
    /\ summary.logged

\* C14 as stated: when the write of the updated rows has failed, run() has
\* taken its fatal exit and has not logged the summary.
C14_Original ==
    excel.state = "error" => (runPc = "exited" /\ ~summary.logged)

\* C14 as amended: a failed write is caught and logged inside
\* updatePointsToExcel; run() goes on to log the summary, sleeps and returns.
\* The fatal exit is taken only for an empty wallet list, before any batch.
C14_WriteFailureSwallowed ==
    /\ excel.state = "error" =>
          /\ summary.logged
          /\ summary.success = stats.success /\ summary.failed = stats.failed
          /\ runPc \in {"sleeping", "returned"}
    /\ runPc = "exited" => (total = 0 /\ excel.state = "loaded" /\ batches = <<>>)
    /\ summary.logged => excel.state \in {"written", "error"}

\* C14 witness: the write failed after a pass over three wallets and run()
\* has returned after its sleep.
C14_Witness ==
    excel.state = "error" /\ runPc = "returned" /\ total = 3 /\ summary.logged

\* C15: after the pass, the write and the sleep, the driver starts another
\* full pass: the step that ends the sleep re-enters run() at its start.
C15_SleepThenNextPass ==
    [][(runPc = "sleeping" /\ runPc' # "sleeping") => runPc' = "start"]_vars

\* C16: only a false result of checkInvite or registerWallet ends a workflow
\* early: a step that ends a workflow is either the early return after
\* checkInvite or registerWallet, or checkNodePoints completing it as done
\* with every operation after the registration check issued in order.
C16_OnlyInviteOrRegistrationEndsEarly ==
    [][\A w \in Wallets :
          (pc[w] \in Ops /\ pc'[w] \in Terminal) =>
              \/ pc[w] \in {"checkInvite", "registerWallet"} /\ pc'[w] = "aborted"
              \/ pc[w] = "checkNodePoints" /\ pc'[w] = "done"]_vars

\* C17: the referral code is verified before registration is attempted, and a
\* false result of checkInvite or registerWallet is the end of the workflow.
\* State part: a workflow that has issued registerWallet issued it third,
\* after isWalletRegistered returned false and checkInvite returned true; no
\* running workflow holds a false checkInvite or registerWallet result; an
\* aborted workflow has no request in flight.
C17_StateInv ==
    \A w \in Wallets :
        /\ Issued(w, "checkInvite") =>
              /\ Len(log[w]) >= 2
              /\ log[w][1] = "isWalletRegistered" /\ log[w][2] = "checkInvite"
              /\ locals[w].isRegistered = "false"
        /\ Issued(w, "registerWallet") =>
              /\ Len(log[w]) >= 3 /\ log[w][3] = "registerWallet"
              /\ Issued(w, "checkInvite")
              /\ locals[w].isValidInvite = "true"
        /\ Occurrences(log[w], "checkInvite") <= 1
        /\ Occurrences(log[w], "registerWallet") <= 1
        /\ locals[w].isValidInvite \in {"unset", "true"}
        /\ locals[w].registered \in {"unset", "true"}
        /\ pc[w] = "aborted" => (phase[w] = "none" /\ log[w] = <<>>)

\* Step part: an early return comes only from checkInvite or registerWallet,
\* changes no counter, and is final; checkInvite is followed by
\* registerWallet or the early return, registerWallet by dailyCheckIn or the
\* early return.
C17_StepInv ==
    \A w \in Wallets :
        /\ pc[w] = "aborted" => (pc'[w] = "aborted" /\ phase'[w] = "none")
        /\ (pc[w] # "aborted" /\ pc'[w] = "aborted") =>
              /\ pc[w] \in {"checkInvite", "registerWallet"}
              /\ stats' = stats
              /\ wallets' = wallets
        /\ (pc[w] = "checkInvite" /\ pc'[w] # "checkInvite") =>
              pc'[w] \in {"registerWallet", "aborted"}
        /\ (pc[w] = "registerWallet" /\ pc'[w] # "registerWallet") =>
              pc'[w] \in {"dailyCheckIn", "aborted"}

C17_InviteBeforeRegistration == [](C17_StateInv) /\ [][C17_StepInv]_vars

\* C17 witness: one workflow has taken the early return while another, whose
\* referral code was accepted, has registerWallet in flight.
C17_Witness ==
    \E w, v \in Wallets :
        /\ pc[w] = "aborted"
        /\ pc[v] = "registerWallet" /\ phase[v] = "flight"
        /\ locals[v].isValidInvite = "true"

\* C18: a reply with a status below 500 is returned by makeRequest on the
\* attempt that received it: it is the last thing axios did in the call, the
\* call's result is that response, no attempt and no timer follows it; when
\* it answers the first attempt the call has cost one attempt and no delay.
C18_Below500ReturnedAtOnce ==
    \A k \in 1..Len(req.outs) :
        (req.outs[k].status > 0 /\ req.outs[k].status < 500) =>
            /\ req.outs[k].kind = "response"
            /\ k = Len(req.outs)
            /\ req.phase = "returned" /\ req.result = "response"
            /\ req.response.ok /\ req.response.status = req.outs[k].status
            /\ req.attempts = k
            /\ Len(req.delays) = k - 1

\* C18 witness: a call answered 404 on its first attempt has returned that
\* response after one attempt and no delay.
C18_Witness ==
    /\ req.phase = "returned" /\ req.result = "response"
    /\ Len(req.outs) = 1 /\ req.outs[1].status = 404
    /\ req.attempts = 1 /\ req.delays = <<>> /\ req.retries >= 2

\* C19: every workflow ends after boundedly many attempts, every batch
\* settles and a run over a non-empty list reaches the summary.
\* Safety part: a running workflow has issued at most 8 operations, none of
\* them twice, and is within the retry budget on the current one.
C19_Bounded ==
    \A w \in Wallets :
        /\ Len(log[w]) <= Cardinality(Ops)
        /\ \A op \in Ops : Occurrences(log[w], op) <= 1
        /\ att[w] + 1 <= retryCount
        /\ phase[w] \in {"flight", "delay"} => pc[w] \in Ops

\* What the run has reached with the summary: all batches launched, every
\* workflow terminal, every promise settled.
C19_AllSettled ==
    /\ summary.logged
    /\ i >= total
    /\ \A w \in Wallets : pc[w] \in Terminal /\ promise[w] \in {"fulfilled", "rejected"}

C19_RunReachesSummary ==
    [](C19_Bounded) /\ ((runPc = "start" /\ total > 0) ~> C19_AllSettled)

\* C19 witness: a run over three wallets has reached the summary with one
\* workflow completed, one ended early and one thrown.
C19_Witness ==
    /\ C19_AllSettled /\ total = 3
    /\ Count("done") = 1 /\ Count("aborted") = 1 /\ Count("failed") = 1

\* C20: a workflow writes only its own row's point and only when
\* checkNodePoints returns.  State part: the row of a workflow that has not
\* completed (not started, running, ended early or thrown) holds the point
\* that was loaded.  Step part: a step changes row w only if it is workflow
\* w's own step out of checkNodePoints, and no row is added or removed.
C20_StateInv ==
    \A w \in Wallets : pc[w] # "done" => wallets[w].point \in LoadedPoints

C20_StepInv ==
    /\ Len(wallets') = Len(wallets)
    /\ \A w \in Wallets :
          wallets'[w] # wallets[w] =>
              /\ pc[w] = "checkNodePoints" /\ pc'[w] = "done"
              /\ \A v \in Wallets \ {w} : wallets'[v] = wallets[v] /\ pc'[v] = pc[v]

C20_PointFrame == [](C20_StateInv) /\ [][C20_StepInv]_vars

\* C20 witness: in one batch of two, the second workflow has stored a new
\* point total while the first ended early with its loaded point, and a
\* third wallet has not started.
C20_Witness ==
    /\ batchSize = 2 /\ total = 3
    /\ pc[1] = "aborted" /\ wallets[1].point \in LoadedPoints
    /\ pc[2] = "done" /\ wallets[2].point \notin LoadedPoints
    /\ pc[3] = "idle" /\ wallets[3].point \in LoadedPoints

====
